---- MODULE Spec2Model ----
(***************************************************************************)
(* TransparentUnzip (hgvmbuilder/transparentunzip.py): a reader that wraps *)
(* a byte stream, un-gzips it when the first chunk decodes as gzip and     *)
(* passes it through otherwise, with read(size), readline(max_bytes),      *)
(* line iteration (next) and throughput counters.                          *)
(*                                                                         *)
(* Bytes are the numbers 0..3.  The gzip container is kept in shape and    *)
(* shrunk in size: a member is the two magic bytes ID1 ID2, a body of      *)
(* literal codes closed by the end-of-block code, and a one-byte trailer   *)
(* holding the member's decoded length modulo 4 (gzip's ISIZE).            *)
(***************************************************************************)
EXTENDS Integers, Sequences, FiniteSets, TLC

\* ------------------------------------------------------------------ bytes
NL == 0
CH == 1
ID1 == 2
ID2 == 3
EOB == 0
IsizeMod == 4
Byte == 0 .. 3
PlainByte == {NL, CH}

\* ----------------------------------------------------------------- bounds
MaxRaw == 3
MaxOut == 2
MaxMembers == 2
MaxStatMembers == 1
MaxSize == 2

\* The size handed to stream.read by buffer_chunk.
CHUNK == 16 * 2 ^ 10

\* readline's max_bytes=None
NoLimit == -1

\* ---------------------------------------------------------------- helpers
Min(a, b) == IF a < b THEN a ELSE b

\* Python s[0:n] and s[n:] for n >= 0
SliceTo(s, n) == SubSeq(s, 1, Min(n, Len(s)))
SliceFrom(s, n) == SubSeq(s, Min(n, Len(s)) + 1, Len(s))

\* Python s.find("\n", start): 0-based index of the first newline at or
\* after start, -1 when there is none
RECURSIVE Find(_, _)
Find(s, start) ==
    IF start >= Len(s) THEN -1
    ELSE IF s[start + 1] = NL THEN start
    ELSE Find(s, start + 1)

SeqsUpTo(S, n) == UNION {[1 .. m -> S] : m \in 0 .. n}

RECURSIVE Concat(_)
Concat(ss) == IF ss = <<>> THEN <<>> ELSE Head(ss) \o Concat(Tail(ss))

\* ------------------------------------------------------- the gzip decoder
\* zlib.decompressobj(zlib.MAX_WBITS + 16): a fresh gzip-only decoder
NewDecompressor == [mode |-> "id1", isize |-> 0, unused_data |-> <<>>]

\* self.decompressor = None
NoDecompressor == [mode |-> "None", isize |-> 0, unused_data |-> <<>>]

\* the literal a body code stands for
Literal(code) == code - 1

\* decompressobj.decompress(data), one input byte at a time.  A finished
\* member leaves the rest of the input in unused_data; malformed input
\* raises zlib.error (err), loses the output of this call and leaves the
\* decoder unusable.
RECURSIVE Inflate(_, _, _)
Inflate(d, data, out) ==
    IF d.mode = "bad" THEN [d |-> d, out |-> <<>>, err |-> TRUE]
    ELSE IF data = <<>> THEN [d |-> d, out |-> out, err |-> FALSE]
    ELSE IF d.mode = "done"
    THEN [d |-> [d EXCEPT !.unused_data = @ \o data], out |-> out, err |-> FALSE]
    ELSE LET b == Head(data)
             rest == Tail(data)
             bad == [d |-> [d EXCEPT !.mode = "bad"], out |-> <<>>, err |-> TRUE]
         IN  IF d.mode = "id1"
             THEN IF b = ID1 THEN Inflate([d EXCEPT !.mode = "id2"], rest, out) ELSE bad
             ELSE IF d.mode = "id2"
             THEN IF b = ID2 THEN Inflate([d EXCEPT !.mode = "body"], rest, out) ELSE bad
             ELSE IF d.mode = "body"
             THEN IF b = EOB THEN Inflate([d EXCEPT !.mode = "trailer"], rest, out)
                  ELSE IF Literal(b) \in PlainByte
                  THEN Inflate([d EXCEPT !.isize = (@ + 1) % IsizeMod], rest,
                               Append(out, Literal(b)))
                  ELSE bad
             ELSE \* trailer
                  IF b = d.isize THEN Inflate([d EXCEPT !.mode = "done"], rest, out) ELSE bad

Decompress(d, data) == Inflate(d, data, <<>>)

\* decompressobj.flush(): decompress (called without max_length) has already
\* returned every byte it decoded, so nothing is pending
Flush(d) == <<>>

\* The gzip encoding of one payload, and of a list of payloads
Member(payload) ==
    <<ID1, ID2>> \o [i \in 1 .. Len(payload) |-> payload[i] + 1]
                 \o <<EOB, Len(payload) % IsizeMod>>

RECURSIVE Gzip(_)
Gzip(ps) == IF ps = <<>> THEN <<>> ELSE Member(Head(ps)) \o Gzip(Tail(ps))

\* --------------------------------------------------------------- the state
VARIABLES
    stream,              \* bytes the underlying stream has not handed over yet
    decompressor,        \* self.decompressor
    header_read,         \* self.header_read: "None", "True" or "False"
    buffer,              \* self.buffer
    compressed_bytes,    \* self.compressed_bytes
    uncompressed_bytes,  \* self.uncompressed_bytes
    pc,                  \* "idle", the method whose loop is running, or "returned"
    op,                  \* the method the caller invoked: "read", "readline", "next"
    size,                \* read's argument
    max_bytes,           \* readline's argument
    newline_index,       \* readline's local
    checked,             \* readline's local
    result,              \* the bytes the last call returned
    status,              \* "none", "pending", "ok", "stop" (StopIteration), "error" (zlib.error)
    last_refill,         \* what the last buffer_chunk of the running read reported
    stats,               \* the pair the last get_stats returned
    input,               \* the whole byte sequence the stream was opened on
    members,             \* the payloads input was compressed from, <<>> for raw input
    delivered,           \* every result returned so far, concatenated
    produced,            \* every byte appended to the buffer so far
    eof,                 \* stream.read has returned an empty chunk
    raised,              \* a zlib.error has reached the caller
    exhausted,           \* a read(size >= 1) or unbounded readline has returned empty
    partial_seen,        \* an unbounded readline has returned a line without newline
    pulled,              \* bytes stream.read has handed over since the last start_stats
    handed               \* bytes returned to the caller since the last start_stats

reader == <<stream, decompressor, header_read, buffer, compressed_bytes, uncompressed_bytes>>
frame == <<pc, op, size, max_bytes, newline_index, checked, result, status, last_refill, stats>>
ghost == <<input, members, delivered, produced, eof, raised, exhausted, partial_seen,
           pulled, handed>>
vars == <<reader, frame, ghost>>

Self ==
    [stream |-> stream, decompressor |-> decompressor, header_read |-> header_read,
     buffer |-> buffer, compressed_bytes |-> compressed_bytes,
     uncompressed_bytes |-> uncompressed_bytes]

Install(s) ==
    /\ stream' = s.stream
    /\ decompressor' = s.decompressor
    /\ header_read' = s.header_read
    /\ buffer' = s.buffer
    /\ compressed_bytes' = s.compressed_bytes
    /\ uncompressed_bytes' = s.uncompressed_bytes

\* __init__ around a stream holding the bytes data
Constructed(data) ==
    [stream |-> data, decompressor |-> NewDecompressor, header_read |-> "None",
     buffer |-> <<>>, compressed_bytes |-> 0, uncompressed_bytes |-> 0]

\* ------------------------------------------------------------ buffer_chunk
\* buffer_chunk takes the recycling branch
Recycles(s) ==
    s.decompressor.mode # "None" /\ Len(s.decompressor.unused_data) > 0

\* The lengths stream.read(CHUNK) may return: empty only at the end of the
\* stream, otherwise any non-empty prefix of at most CHUNK bytes
ChunkLens(s) ==
    IF Recycles(s) \/ s.stream = <<>> THEN {0}
    ELSE 1 .. Min(Len(s.stream), CHUNK)

\* Fetch with lines 79 and 81 swapped: the leftover is looked up in the fresh
\* decoder, which has none
Fetch_LosesLeftover(s, k) ==
    IF Recycles(s)
    THEN [self |-> [s EXCEPT !.buffer = @ \o Flush(s.decompressor),
                             !.decompressor = NewDecompressor],
          compressed |-> NewDecompressor.unused_data]
    ELSE [self |-> [s EXCEPT !.stream = SliceFrom(@, k),
                             !.compressed_bytes = @ + Len(SliceTo(s.stream, k))],
          compressed |-> SliceTo(s.stream, k)]

\* Fetch that forgets what was detected when it starts a fresh decoder
Fetch_Redetects(s, k) ==
    IF Recycles(s)
    THEN [self |-> [s EXCEPT !.buffer = @ \o Flush(s.decompressor),
                             !.decompressor = NewDecompressor,
                             !.header_read = "None"],
          compressed |-> s.decompressor.unused_data]
    ELSE [self |-> [s EXCEPT !.stream = SliceFrom(@, k),
                             !.compressed_bytes = @ + Len(SliceTo(s.stream, k))],
          compressed |-> SliceTo(s.stream, k)]

\* Fetch that counts the recycled leftover as consumed once more
Fetch_CountsRecycled(s, k) ==
    IF Recycles(s)
    THEN [self |-> [s EXCEPT !.buffer = @ \o Flush(s.decompressor),
                             !.decompressor = NewDecompressor,
                             !.compressed_bytes = @ + Len(s.decompressor.unused_data)],
          compressed |-> s.decompressor.unused_data]
    ELSE [self |-> [s EXCEPT !.stream = SliceFrom(@, k),
                             !.compressed_bytes = @ + Len(SliceTo(s.stream, k))],
          compressed |-> SliceTo(s.stream, k)]

\* Fetch that feeds the leftover to the finished decoder it came from
Fetch_KeepsDecoder(s, k) ==
    IF Recycles(s)
    THEN [self |-> [s EXCEPT !.buffer = @ \o Flush(s.decompressor)],
          compressed |-> s.decompressor.unused_data]
    ELSE [self |-> [s EXCEPT !.stream = SliceFrom(@, k),
                             !.compressed_bytes = @ + Len(SliceTo(s.stream, k))],
          compressed |-> SliceTo(s.stream, k)]

\* buffer_chunk, lines 70-90: where the next chunk comes from when stream.read
\* would hand over k bytes.  The leftover of a finished member is recycled into
\* a fresh decoder without touching the stream; otherwise k bytes are read and
\* counted.
Fetch(s, k) ==
    IF Recycles(s)
    THEN [self |-> [s EXCEPT !.buffer = @ \o Flush(s.decompressor),
                             !.decompressor = NewDecompressor],
          compressed |-> s.decompressor.unused_data]
    ELSE [self |-> [s EXCEPT !.stream = SliceFrom(@, k),
                             !.compressed_bytes = @ + Len(SliceTo(s.stream, k))],
          compressed |-> SliceTo(s.stream, k)]

\* OutOfData that reports the end without the final flush
OutOfData_NoFlush(s) == [self |-> s, ret |-> "False"]

\* OutOfData that flushes and discards the decoder but reports the end
OutOfData_FlushReportsEnd(s) ==
    IF s.decompressor.mode # "None" /\ s.header_read = "True"
    THEN [self |-> [s EXCEPT !.buffer = @ \o Flush(s.decompressor),
                             !.decompressor = NoDecompressor],
          ret |-> "False"]
    ELSE [self |-> s, ret |-> "False"]

\* OutOfData that flushes but keeps the decoder
OutOfData_KeepsDecoder(s) ==
    IF s.decompressor.mode # "None" /\ s.header_read = "True"
    THEN [self |-> [s EXCEPT !.buffer = @ \o Flush(s.decompressor)],
          ret |-> "True"]
    ELSE [self |-> s, ret |-> "False"]

\* OutOfData that flushes whenever a decoder is held, whatever the flag
OutOfData_FlushesUnknown(s) ==
    IF s.decompressor.mode # "None"
    THEN [self |-> [s EXCEPT !.buffer = @ \o Flush(s.decompressor),
                             !.decompressor = NoDecompressor],
          ret |-> "True"]
    ELSE [self |-> s, ret |-> "False"]

\* buffer_chunk, lines 92-113: the chunk is empty
OutOfData(s) ==
    IF s.decompressor.mode # "None" /\ s.header_read = "True"
    THEN [self |-> [s EXCEPT !.buffer = @ \o Flush(s.decompressor),
                             !.decompressor = NoDecompressor],
          ret |-> "True"]
    ELSE [self |-> s, ret |-> "False"]

\* FirstChunk that keeps the decoder's (lost) output when decoding fails,
\* not the raw chunk
FirstChunk_DropsRaw(s, compressed) ==
    LET dec == Decompress(s.decompressor, compressed)
    IN  [self |-> [s EXCEPT !.decompressor = dec.d,
                            !.buffer = @ \o dec.out,
                            !.header_read = IF dec.err THEN "False" ELSE "True"],
         ret |-> "True"]

\* buffer_chunk, lines 116-134: the first chunk decides header_read
FirstChunk(s, compressed) ==
    LET dec == Decompress(s.decompressor, compressed)
    IN  IF dec.err
        THEN [self |-> [s EXCEPT !.decompressor = dec.d,
                                 !.buffer = @ \o compressed,
                                 !.header_read = "False"],
              ret |-> "True"]
        ELSE [self |-> [s EXCEPT !.decompressor = dec.d,
                                 !.buffer = @ \o dec.out,
                                 !.header_read = "True"],
              ret |-> "True"]

\* KnownChunk that feeds the decoder whatever header_read says
KnownChunk_AlwaysDecodes(s, compressed) ==
    LET dec == Decompress(s.decompressor, compressed)
    IN  IF dec.err
        THEN [self |-> [s EXCEPT !.decompressor = dec.d], ret |-> "raise"]
        ELSE [self |-> [s EXCEPT !.decompressor = dec.d,
                                 !.buffer = @ \o dec.out],
              ret |-> "True"]

\* KnownChunk that treats a failure like the first chunk's: the raw chunk
\* goes into the buffer and no error leaves
KnownChunk_Swallows(s, compressed) ==
    IF s.header_read = "True"
    THEN LET dec == Decompress(s.decompressor, compressed)
         IN  IF dec.err
             THEN [self |-> [s EXCEPT !.decompressor = dec.d,
                                      !.buffer = @ \o compressed],
                   ret |-> "True"]
             ELSE [self |-> [s EXCEPT !.decompressor = dec.d,
                                      !.buffer = @ \o dec.out],
                   ret |-> "True"]
    ELSE [self |-> [s EXCEPT !.buffer = @ \o compressed], ret |-> "True"]

\* buffer_chunk, lines 136-150: header_read is known; a zlib.error is not
\* caught here
KnownChunk(s, compressed) ==
    IF s.header_read = "True"
    THEN LET dec == Decompress(s.decompressor, compressed)
         IN  IF dec.err
             THEN [self |-> [s EXCEPT !.decompressor = dec.d], ret |-> "raise"]
             ELSE [self |-> [s EXCEPT !.decompressor = dec.d,
                                      !.buffer = @ \o dec.out],
                   ret |-> "True"]
    ELSE [self |-> [s EXCEPT !.buffer = @ \o compressed], ret |-> "True"]

\* buffer_chunk when stream.read hands over k bytes.  ret is "True", "False"
\* or "raise" (zlib.error leaves the method); self is the reader afterwards.
buffer_chunk(s, k) ==
    LET f == Fetch(s, k)
    IN  IF f.compressed = <<>> THEN OutOfData(f.self)
        ELSE IF f.self.header_read = "None" THEN FirstChunk(f.self, f.compressed)
        ELSE KnownChunk(f.self, f.compressed)

\* -------------------------------------------------------------------- read
\* the loop condition with >= for >
ReadWants_OrEqual(sz, buf) == sz >= Len(buf)

\* read's loop condition, before buffer_chunk is called
ReadWants(sz, buf) == sz > Len(buf)

\* the slice one byte too long
ReadPart_OneMore(buf, sz) == SliceTo(buf, sz + 1)

\* part = self.buffer[0:size]
ReadPart(buf, sz) == SliceTo(buf, sz)

\* the rest cut one byte too far
ReadRest_OneMore(buf, sz) == SliceFrom(buf, sz + 1)

\* self.buffer = self.buffer[size:]
ReadRest(buf, sz) == SliceFrom(buf, sz)

\* read_tail counting the bytes asked for, not the bytes returned
read_tail_CountsSize(s, sz) ==
    [s EXCEPT !.buffer = ReadRest(s.buffer, sz),
              !.uncompressed_bytes = @ + sz]

\* read after its loop: cut the part off the buffer and count it
read_tail(s, sz) ==
    [s EXCEPT !.buffer = ReadRest(s.buffer, sz),
              !.uncompressed_bytes = @ + Len(ReadPart(s.buffer, sz))]

\* ---------------------------------------------------------------- readline
\* the loop condition refilling only under a limit
ReadlineWants_OnlyLimited(idx, limit, buf) ==
    idx = -1 /\ (limit # NoLimit /\ Len(buf) < limit)

\* readline's loop condition, before buffer_chunk is called
ReadlineWants(idx, limit, buf) ==
    idx = -1 /\ (limit = NoLimit \/ Len(buf) < limit)

\* the scan starting one byte past the cursor
Rescan_SkipsOne(buf, from) == Find(buf, from + 1)

\* newline_index = self.buffer.find("\n", checked): only the bytes the refill
\* appended are scanned
Rescan(buf, from) == Find(buf, from)

\* the size readline hands to read after its loop
ReadlineSize(idx, limit, buf) ==
    IF idx = -1
    THEN IF limit = NoLimit THEN Len(buf) ELSE limit
    ELSE idx + 1

Unbounded == op \in {"readline", "next"} /\ max_bytes = NoLimit

\* ------------------------------------------------------------ construction
\* the lists of at most n payloads that decode to at most MaxOut bytes in all
MemberLists(n) ==
    {ps \in SeqsUpTo(SeqsUpTo(PlainByte, MaxOut), n) :
        ps # <<>> /\ Len(Concat(ps)) <= MaxOut}

\* what may follow the last member of a gzip input: nothing, or a byte that
\* is not the start of a member
Tails == {<<>>, <<CH>>}

\* The reader constructed on an input: any byte string of at most MaxRaw
\* bytes, or the gzip encoding of at most n members and a tail
Constructs(n) ==
    /\ \/ /\ input \in SeqsUpTo(Byte, MaxRaw)
          /\ members = <<>>
       \/ \E ps \in MemberLists(n), t \in Tails :
             /\ input = Gzip(ps) \o t
             /\ members = ps
    /\ stream = input
    /\ decompressor = NewDecompressor
    /\ header_read = "None"
    /\ buffer = <<>>
    /\ compressed_bytes = 0
    /\ uncompressed_bytes = 0
    /\ pc = "idle" /\ op = "none" /\ size = 0 /\ max_bytes = NoLimit
    /\ newline_index = -1 /\ checked = 0
    /\ result = <<>> /\ status = "none" /\ last_refill = "none"
    /\ delivered = <<>> /\ produced = <<>>
    /\ eof = FALSE /\ raised = FALSE /\ exhausted = FALSE /\ partial_seen = FALSE
    /\ stats = <<0, 0>> /\ pulled = 0 /\ handed = 0

Init == Constructs(MaxStatMembers)

InitFlow == Constructs(MaxMembers)

\* ----------------------------------------------------------------- actions
\* what one buffer_chunk leaves in the history: the bytes it appended,
\* whether stream.read came back empty, and the bytes that left the stream
Refilled(s, k, r) ==
    /\ produced' = produced \o SubSeq(r.self.buffer, Len(s.buffer) + 1, Len(r.self.buffer))
    /\ eof' = (eof \/ (~Recycles(s) /\ k = 0))
    /\ pulled' = pulled + (Len(s.stream) - Len(r.self.stream))

\* zlib.error leaves the running call
Raise(s) ==
    /\ Install(s)
    /\ pc' = "returned" /\ status' = "error" /\ raised' = TRUE
    /\ newline_index' = -1 /\ checked' = 0
    /\ UNCHANGED <<op, size, max_bytes, result, last_refill, stats, input, members,
                   delivered, exhausted, partial_seen, handed>>

\* read(sz) leaves its loop with the reader in state s and returns
Return(s, sz, refill) ==
    LET part == ReadPart(s.buffer, sz)
    IN  /\ Install(read_tail(s, sz))
        /\ result' = part
        /\ delivered' = delivered \o part
        /\ handed' = handed + Len(part)
        /\ pc' = "returned"
        /\ status' = IF op = "next" /\ part = <<>> THEN "stop" ELSE "ok"
        /\ size' = sz
        /\ last_refill' = refill
        /\ newline_index' = -1 /\ checked' = 0
        /\ exhausted' = (exhausted \/ (part = <<>> /\ (Unbounded \/ (op = "read" /\ sz >= 1))))
        /\ partial_seen' = (partial_seen \/
                              (Unbounded /\ part # <<>> /\ part[Len(part)] # NL))
        /\ UNCHANGED <<op, max_bytes, stats, input, members, raised>>

\* the caller invokes read(sz)
CallRead(sz) ==
    /\ pc = "idle"
    /\ pc' = "read" /\ op' = "read" /\ size' = sz /\ max_bytes' = NoLimit
    /\ status' = "pending" /\ result' = <<>> /\ last_refill' = "none"
    /\ UNCHANGED <<reader, newline_index, checked, stats, ghost>>

\* one turn of read's loop: the buffer is short, so buffer_chunk runs; when
\* it reports False the loop ends and read returns in the same step
ReadRefill ==
    /\ pc = "read"
    /\ ReadWants(size, buffer)
    /\ \E k \in ChunkLens(Self) :
          \E r \in {buffer_chunk(Self, k)} :
              /\ Refilled(Self, k, r)
              /\ IF r.ret = "True"
                 THEN /\ Install(r.self)
                      /\ last_refill' = "True"
                      /\ UNCHANGED <<pc, op, size, max_bytes, newline_index, checked,
                                     result, status, stats, input, members, delivered,
                                     raised, exhausted, partial_seen, handed>>
                 ELSE IF r.ret = "False"
                 THEN Return(r.self, size, "False")
                 ELSE Raise(r.self)

\* read's loop ends because the buffer holds enough
ReadReturn ==
    /\ pc = "read"
    /\ ~ReadWants(size, buffer)
    /\ Return(Self, size, last_refill)
    /\ UNCHANGED <<produced, eof, pulled>>

\* the caller invokes readline(limit); op is "readline", or "next" when the
\* call comes from the iterator
CallReadline(limit, how) ==
    /\ pc = "idle"
    /\ pc' = "readline" /\ op' = how /\ max_bytes' = limit
    /\ newline_index' = Find(buffer, 0)
    /\ checked' = Len(buffer)
    /\ status' = "pending" /\ result' = <<>> /\ last_refill' = "none" /\ size' = 0
    /\ UNCHANGED <<reader, stats, ghost>>

\* readline hands over to read(sz)
Dispatch(s, sz) ==
    /\ Install(s)
    /\ pc' = "read" /\ size' = sz /\ last_refill' = "none"
    /\ newline_index' = -1 /\ checked' = 0
    /\ UNCHANGED <<op, max_bytes, result, status, stats, input, members, delivered,
                   raised, exhausted, partial_seen, handed>>

\* one turn of readline's loop
ReadlineRefill ==
    /\ pc = "readline"
    /\ ReadlineWants(newline_index, max_bytes, buffer)
    /\ \E k \in ChunkLens(Self) :
          \E r \in {buffer_chunk(Self, k)} :
              /\ Refilled(Self, k, r)
              /\ IF r.ret = "True"
                 THEN /\ Install(r.self)
                      /\ newline_index' = Rescan(r.self.buffer, checked)
                      /\ checked' = Len(r.self.buffer)
                      /\ UNCHANGED <<pc, op, size, max_bytes, result, status,
                                     last_refill, stats, input, members, delivered,
                                     raised, exhausted, partial_seen, handed>>
                 ELSE IF r.ret = "False"
                 THEN Dispatch(r.self, ReadlineSize(newline_index, max_bytes, r.self.buffer))
                 ELSE Raise(r.self)

\* readline's loop ends without calling buffer_chunk
ReadlineFound ==
    /\ pc = "readline"
    /\ ~ReadlineWants(newline_index, max_bytes, buffer)
    /\ Dispatch(Self, ReadlineSize(newline_index, max_bytes, buffer))
    /\ UNCHANGED <<produced, eof, pulled>>

\* the caller takes what the call returned (or raised); the call's frame is gone
Resume ==
    /\ pc = "returned"
    /\ pc' = "idle" /\ op' = "none" /\ size' = 0 /\ max_bytes' = NoLimit
    /\ result' = <<>> /\ status' = "none" /\ last_refill' = "none"
    /\ stats' = <<0, 0>>
    /\ UNCHANGED <<reader, newline_index, checked, ghost>>

\* start_stats that also empties the buffer
StartStats_ClearsBuffer ==
    /\ pc = "idle"
    /\ compressed_bytes' = 0
    /\ uncompressed_bytes' = 0
    /\ buffer' = <<>>
    /\ pulled' = 0 /\ handed' = 0
    /\ UNCHANGED <<stream, decompressor, header_read, frame, input, members,
                   delivered, produced, eof, raised, exhausted, partial_seen>>

\* start_stats()
StartStats ==
    /\ pc = "idle"
    /\ compressed_bytes' = 0
    /\ uncompressed_bytes' = 0
    /\ pulled' = 0 /\ handed' = 0
    /\ UNCHANGED <<stream, decompressor, header_read, buffer, frame, input, members,
                   delivered, produced, eof, raised, exhausted, partial_seen>>

\* get_stats(): the call returns the two counters
GetStats ==
    /\ pc = "idle"
    /\ stats' = <<compressed_bytes, uncompressed_bytes>>
    /\ pc' = "returned" /\ op' = "get_stats" /\ status' = "ok"
    /\ UNCHANGED <<reader, size, max_bytes, newline_index, checked, result,
                   last_refill, ghost>>

Limits == {NoLimit} \cup (0 .. MaxSize)

\* read, readline and the iterator
NextFlow ==
    \/ \E sz \in 0 .. MaxSize : CallRead(sz)
    \/ ReadRefill
    \/ ReadReturn
    \/ \E limit \in Limits : CallReadline(limit, "readline")
    \/ CallReadline(NoLimit, "next")
    \/ ReadlineRefill
    \/ ReadlineFound
    \/ Resume

\* every method of the reader
Next ==
    \/ NextFlow
    \/ StartStats
    \/ GetStats

\* the reader with all its methods
Spec == Init /\ [][Next]_vars

\* the reader without calls of start_stats and get_stats (nothing else reads
\* the counters), on the longer inputs
SpecFlow == InitFlow /\ [][NextFlow]_vars

\* a call that has started keeps running: the loops of read and readline are
\* ordinary sequential code, so their next step is eventually taken
SpecLive ==
    /\ InitFlow
    /\ [][NextFlow]_vars
    /\ WF_vars(ReadRefill)
    /\ WF_vars(ReadReturn)
    /\ WF_vars(ReadlineRefill)
    /\ WF_vars(ReadlineFound)

\* ------------------------------------------------------------- properties
IsPrefix(a, b) == Len(a) <= Len(b) /\ SubSeq(b, 1, Len(a)) = a

\* A call has just returned a value (not raised)
Returned == pc = "returned" /\ status \in {"ok", "stop"}

\* Reading alone with the whole remaining stream handed over at once:
\* buffer_chunk is called until it reports False, nothing leaves the buffer
RECURSIVE Drain(_, _)
Drain(s, err) ==
    LET r == buffer_chunk(s, Min(Len(s.stream), CHUNK))
    IN  IF r.ret = "False" THEN [self |-> r.self, raised |-> err]
        ELSE Drain(r.self, err \/ r.ret = "raise")

OneChunk(data) == Drain(Constructed(data), FALSE)

\* C1: when the decoder rejected the first chunk (header_read is False), the
\* results returned so far, the buffer and the unread stream make up the
\* input, byte for byte; once a read(size >= 1) has returned empty, the
\* results alone are the whole input.
C1_PassThrough ==
    header_read = "False" =>
        /\ delivered \o buffer \o stream = input
        /\ exhausted => delivered = input

C1_Witness ==
    /\ header_read = "False" /\ exhausted /\ op = "read"
    /\ Len(input) = MaxRaw /\ delivered = input

\* C2: for an input that is the gzip encoding of one or more members, no call
\* raises, the bytes delivered and buffered are always a prefix of the members'
\* payloads in member order, and at exhaustion everything has been delivered,
\* wherever the chunks end.
C2_Members ==
    (members # <<>> /\ input = Gzip(members)) =>
        /\ ~raised
        /\ header_read # "False"
        /\ IsPrefix(delivered \o buffer, Concat(members))
        /\ exhausted => delivered = Concat(members)

C2_Witness ==
    /\ exhausted /\ input = Gzip(members)
    /\ Len(members) = MaxMembers
    /\ \A i \in 1 .. Len(members) : members[i] # <<>>
    /\ delivered = Concat(members)

\* C3: a call of read(size) never returns more than size bytes, and returns
\* fewer only when its last buffer_chunk reported False after the stream came
\* back empty, and the call took all that the buffer held.
C3_ReadSize ==
    Returned =>
        /\ Len(result) <= size
        /\ Len(result) < size =>
              (last_refill = "False" /\ eof /\ buffer = <<>> /\ stream = <<>>)

C3_Witness ==
    /\ Returned /\ op = "read" /\ size = MaxSize
    /\ result # <<>> /\ Len(result) < size

\* C4: a call of readline(max_bytes) with a limit returns at most max_bytes
\* bytes.
C4_LineLimit ==
    (Returned /\ op = "readline" /\ max_bytes # NoLimit) =>
        Len(result) <= max_bytes

\* C5: once an unbounded readline has returned a non-empty line that does not
\* end in a newline, the buffer and the stream stay empty and every call that
\* returns afterwards returns empty, without raising.
C5_PartialLineIsLast ==
    [][partial_seen =>
          /\ buffer' = <<>> /\ stream' = <<>>
          /\ (pc # "returned" /\ pc' = "returned") =>
                (status' \in {"ok", "stop"} /\ result' = <<>>)]_vars

C5_Witness ==
    /\ partial_seen /\ pc = "returned" /\ op = "next" /\ status = "stop"
    /\ Len(delivered) >= 2

\* C6: bytes leave the buffer from the front in the order they entered it,
\* whatever mix of read and readline calls takes them: the results returned
\* so far followed by the buffer are the bytes appended so far; and when no
\* call has raised, the results up to exhaustion are the bytes that reading
\* alone puts into the buffer.
C6_SameBytesInOrder ==
    /\ produced = delivered \o buffer
    /\ (exhausted /\ ~raised) => delivered = OneChunk(input).self.buffer

\* a readline has returned bytes that follow a result cut off in mid-line by
\* a read or bounded readline, and the stream is exhausted
C6_Witness ==
    /\ Returned /\ op = "readline" /\ max_bytes = NoLimit /\ result # <<>>
    /\ Len(delivered) > Len(result)
    /\ delivered[Len(delivered) - Len(result)] # NL
    /\ delivered = OneChunk(input).self.buffer
    /\ header_read = "True"

\* C7: header_read leaves "None" only in a buffer_chunk that takes the first
\* bytes off the stream, and never changes afterwards.
C7_FlagOneWay ==
    [][/\ header_read # "None" => header_read' = header_read
       /\ header_read' # header_read =>
             (pc \in {"read", "readline"} /\ stream = input /\ stream' # stream)]_vars

C7_Witness ==
    /\ header_read = "True" /\ decompressor = NoDecompressor
    /\ raised /\ exhausted /\ delivered # <<>>
    /\ compressed_bytes = 0

\* C8: whatever chunks the stream hands over, a call raises only if reading
\* the input in one chunk raises, and at exhaustion the bytes delivered and
\* header_read are those of reading the input in one chunk.
C8_ChunkIndependent ==
    /\ raised => OneChunk(input).raised
    /\ exhausted =>
          /\ delivered = OneChunk(input).self.buffer
          /\ header_read = OneChunk(input).self.header_read

\* C9: a read(size >= 1) or unbounded readline returns empty only after the
\* stream came back empty, with the buffer empty and no decoder left to
\* flush; from then on the buffer stays empty, no call raises or returns
\* bytes, and next() stops exactly when its readline() returned empty.
C9_Exhaustion ==
    /\ exhausted =>
          /\ eof /\ stream = <<>> /\ buffer = <<>>
          /\ ~(decompressor.mode # "None" /\ header_read = "True")
          /\ pc = "returned" => (Returned /\ result = <<>>)
    /\ (Returned /\ op = "next") => (status = "stop" <=> result = <<>>)
    /\ (Returned /\ result = <<>> /\ (Unbounded \/ (op = "read" /\ size >= 1)))
          => exhausted

C9_Witness ==
    /\ exhausted /\ Returned /\ op = "next" /\ status = "stop"
    /\ header_read = "True" /\ delivered # <<>>

\* C10: read(0) returns empty in one step and leaves the stream, the decoder,
\* the buffer, header_read and both counters as they were.
C10_ReadZero ==
    [][(pc = "read" /\ op = "read" /\ size = 0) =>
          /\ UNCHANGED reader
          /\ UNCHANGED <<produced, eof, delivered>>
          /\ pc' = "returned" /\ status' = "ok" /\ result' = <<>>]_vars

C10_Witness ==
    /\ Returned /\ op = "read" /\ size = 0 /\ result = <<>>
    /\ buffer # <<>> /\ stream # <<>> /\ header_read = "True"
    /\ uncompressed_bytes > 0

\* C11: the counters are the bytes that left the stream and the bytes
\* returned to the caller since the last start_stats (a recycled leftover is
\* not counted again), and get_stats returns that pair; no step but
\* start_stats lowers a counter, start_stats leaves both at zero, and
\* get_stats changes nothing of the reader.
C11_Stats ==
    /\ [](/\ compressed_bytes = pulled
          /\ uncompressed_bytes = handed
          /\ (pc = "returned" /\ op = "get_stats") => stats = <<pulled, handed>>)
    /\ [][/\ (pc = "idle" /\ pc' = "idle") =>
                (compressed_bytes' = 0 /\ uncompressed_bytes' = 0)
          /\ (pc # "idle" \/ pc' # "idle") =>
                /\ compressed_bytes' >= compressed_bytes
                /\ uncompressed_bytes' >= uncompressed_bytes
          /\ op' = "get_stats" => UNCHANGED <<reader, ghost>>]_vars

\* get_stats after a start_stats in mid-stream and a recycled leftover
C11_Witness ==
    /\ pc = "returned" /\ op = "get_stats"
    /\ stats[1] > 0 /\ stats[2] > 0
    /\ stats[1] < Len(input) - Len(stream)
    /\ stats[2] < Len(delivered)
    /\ members # <<>> /\ raised

\* C12: start_stats zeroes both counters and leaves the stream, the decoder,
\* header_read and the buffer as they were; with start_stats called at any
\* points, the bytes delivered up to exhaustion are still those of reading
\* the input without it.
C12_StartStatsFrame ==
    /\ [][(pc = "idle" /\ pc' = "idle") =>
              /\ compressed_bytes' = 0 /\ uncompressed_bytes' = 0
              /\ UNCHANGED <<stream, decompressor, header_read, buffer,
                             delivered, produced, eof>>]_vars
    /\ []((exhausted /\ ~raised) => delivered = OneChunk(input).self.buffer)

\* just after a start_stats in mid-stream, with bytes waiting in the buffer
C12_Witness ==
    /\ pc = "idle" /\ compressed_bytes = 0 /\ uncompressed_bytes = 0
    /\ delivered # <<>> /\ buffer # <<>> /\ stream # <<>>
    /\ header_read = "True"

\* the bytes a step takes off the stream
Taken == SubSeq(stream, 1, Len(stream) - Len(stream'))

\* C13: the buffer_chunk whose decoder rejects the first chunk appends that
\* chunk as it is, sets header_read to False and reports success without an
\* error reaching the caller; from then on the decoder is never fed, flushed
\* or replaced, nothing raises, and every chunk read is appended verbatim.
C13_FirstChunkFallback ==
    [][/\ (header_read = "None" /\ header_read' = "False") =>
             /\ Taken # <<>> /\ buffer' = buffer \o Taken
             /\ pc' = pc /\ status' = status /\ ~raised'
       /\ header_read = "False" =>
             /\ decompressor' = decompressor /\ header_read' = "False" /\ ~raised'
             /\ stream' # stream => (buffer' = buffer \o Taken /\ pc' = pc)]_vars

\* a chunk has been appended by a call that came after the call that got the
\* rejected first chunk
C13_Witness ==
    /\ header_read = "False" /\ decompressor.mode = "bad"
    /\ pc = "read" /\ last_refill = "True"
    /\ delivered # <<>> /\ buffer # <<>>

\* C14: with header_read True, a step in which the decoder fails (it turns
\* unusable, or is fed again when already unusable) ends the call with an
\* error; and whenever a call ends with an error, header_read was and stays
\* True and the buffer and the bytes delivered are what they were: the failed
\* chunk is not appended and nothing buffered is dropped.
C14_LaterFailurePropagates ==
    [][/\ (/\ header_read = "True"
           /\ decompressor'.mode = "bad"
           /\ (decompressor.mode # "bad" \/ stream' # stream)) =>
             (pc' = "returned" /\ status' = "error" /\ raised')
       /\ (status' = "error" /\ status # "error") =>
             /\ header_read = "True" /\ header_read' = "True"
             /\ buffer' = buffer /\ produced' = produced
             /\ delivered' = delivered]_vars

\* the leftover after a member failed in a fresh decoder, with decoded bytes
\* waiting in the buffer
C14_Witness ==
    /\ pc = "returned" /\ status = "error"
    /\ members # <<>> /\ buffer # <<>>
    /\ decompressor.mode = "bad" /\ header_read = "True"

\* a loop is about to call buffer_chunk
Refilling ==
    \/ pc = "read" /\ ReadWants(size, buffer)
    \/ pc = "readline" /\ ReadlineWants(newline_index, max_bytes, buffer)

\* C15: a buffer_chunk that finds a leftover in the decoder leaves the stream
\* and the bytes-consumed counter alone, ends with the decoder being a fresh
\* one that was fed exactly the leftover, and appends the old decoder's
\* flushed output followed by what the fresh decoder decoded from the
\* leftover (nothing more when the fresh decoder fails, which raises).
C15_Recycle ==
    [][(Refilling /\ Recycles(Self)) =>
          LET leftover == decompressor.unused_data
              dec == Decompress(NewDecompressor, leftover)
          IN  /\ stream' = stream /\ eof' = eof
              /\ compressed_bytes' = compressed_bytes /\ pulled' = pulled
              /\ header_read = "True" /\ header_read' = "True"
              /\ decompressor' = dec.d
              /\ Len(decompressor'.unused_data) < Len(leftover)
              /\ IF dec.err
                 THEN status' = "error" /\ produced' = produced \o Flush(decompressor)
                 ELSE /\ pc' = pc /\ status' = status
                      /\ produced' = produced \o Flush(decompressor) \o dec.out]_vars

\* every member but the first has been decoded from a recycled leftover
C15_Witness ==
    /\ input = Gzip(members) /\ Len(members) = MaxMembers
    /\ members[Len(members)] # <<>>
    /\ pc \in {"read", "readline"}
    /\ decompressor.mode = "done" /\ decompressor.unused_data = <<>>
    /\ produced = Concat(members)
    /\ compressed_bytes = Len(input)

\* the buffer_chunk of this step returned False: read leaves its loop and
\* returns, readline leaves its loop and hands over to read
RefillFails ==
    /\ Refilling
    /\ \/ pc = "read" /\ pc' = "returned" /\ status' # "error"
       \/ pc = "readline" /\ pc' = "read"

\* C16: a buffer_chunk that gets an empty chunk while a decoder is held and
\* the flag is True appends the decoder's flush output, drops the decoder and
\* returns True; a dropped decoder never comes back, so this happens at most
\* once; every later buffer_chunk returns False and adds nothing; and False
\* is never returned while the flag is True and a decoder is held.
C16_FinalFlush ==
    /\ [][Refilling =>
            /\ (/\ stream = <<>> /\ ~Recycles(Self)
                /\ decompressor # NoDecompressor /\ header_read = "True") =>
                  /\ decompressor' = NoDecompressor
                  /\ buffer' = buffer \o Flush(decompressor)
                  /\ produced' = produced \o Flush(decompressor)
                  /\ pc' = pc /\ status' = status /\ header_read' = "True"
            /\ decompressor = NoDecompressor =>
                  /\ RefillFails
                  /\ produced' = produced /\ stream' = stream
            /\ RefillFails =>
                  /\ ~(decompressor # NoDecompressor /\ header_read = "True")
                  /\ produced' = produced]_vars
    /\ [][decompressor = NoDecompressor => decompressor' = NoDecompressor]_vars

\* a compressed stream read to its end: the final flush has happened and a
\* later buffer_chunk has returned False
C16_Witness ==
    /\ pc = "returned" /\ op = "read" /\ status = "ok" /\ last_refill = "False"
    /\ decompressor = NoDecompressor /\ header_read = "True"
    /\ exhausted /\ ~raised /\ delivered # <<>>

\* what a buffer_chunk that returns True uses up: unread stream bytes (twice,
\* since a byte read may land in the decoder's leftover), the leftover, and
\* the decoder the final flush drops
Fuel ==
    2 * Len(stream) + Len(decompressor.unused_data)
        + (IF decompressor # NoDecompressor /\ header_read = "True" THEN 1 ELSE 0)

\* the buffer_chunk of this step returned True: the loop goes round again
RefillSucceeds == Refilling /\ pc' = pc /\ status' = status

\* C17: a running read or readline call eventually returns (or raises); and
\* every buffer_chunk that returns True takes a non-empty chunk off the
\* stream, or leaves the decoder with a strictly shorter leftover than the
\* one it recycled, or drops the decoder in the final flush, so that Fuel
\* strictly decreases with every turn of a loop.
C17_CallsReturn ==
    /\ (pc \in {"read", "readline"}) ~> (pc = "returned")
    /\ [][RefillSucceeds =>
            /\ \/ Len(stream') < Len(stream)
               \/ /\ Recycles(Self) /\ stream' = stream
                  /\ Len(decompressor'.unused_data) < Len(decompressor.unused_data)
               \/ /\ stream = <<>> /\ ~Recycles(Self)
                  /\ decompressor # NoDecompressor /\ decompressor' = NoDecompressor
            /\ Fuel' < Fuel]_vars

\* a call returned after refills that all succeeded and appended nothing:
\* two empty members, read to the end
C17_Witness ==
    /\ pc = "returned" /\ status \in {"ok", "stop"}
    /\ Len(members) = 2 /\ Concat(members) = <<>> /\ input = Gzip(members)
    /\ stream = <<>> /\ decompressor = NoDecompressor
    /\ produced = <<>> /\ exhausted

\* C18: a non-empty result of readline() without a limit holds at most one
\* newline, and only as its last byte (so the newline found from the cursor
\* was the first one of the buffer); a result without a newline is everything
\* that was left: the buffer is empty and the stream is at its end.
C18_FirstNewline ==
    (Returned /\ Unbounded /\ result # <<>>) =>
        /\ Find(result, 0) \in {-1, Len(result) - 1}
        /\ Find(result, 0) = -1 => (buffer = <<>> /\ stream = <<>> /\ eof)

\* a line of two bytes or more returned while the buffer still holds another
\* newline
C18_Witness ==
    /\ Returned /\ Unbounded /\ Len(result) >= 2
    /\ result[Len(result)] = NL
    /\ buffer # <<>> /\ Find(buffer, 0) # -1
    /\ header_read = "False"

\* C19: on an empty input the flag stays None, the decoder stays the untouched
\* one made by the constructor (nothing decoded, nothing flushed), nothing
\* reaches the buffer, both counters stay 0, every buffer_chunk returns False
\* and every read, readline and next returns the empty string (next stops
\* the iteration) without an error.
C19_EmptyStream ==
    /\ [](input = <<>> =>
            /\ header_read = "None" /\ decompressor = NewDecompressor
            /\ buffer = <<>> /\ produced = <<>>
            /\ compressed_bytes = 0 /\ uncompressed_bytes = 0
            /\ last_refill # "True" /\ ~raised
            /\ pc = "returned" =>
                  /\ status \in {"ok", "stop"}
                  /\ op # "get_stats" => result = <<>>
                  /\ op = "get_stats" => stats = <<0, 0>>)
    /\ [][(input = <<>> /\ Refilling) => RefillFails]_vars

\* read(size >= 1) on the empty input has called buffer_chunk, got False and
\* returned
C19_Witness ==
    /\ input = <<>> /\ pc = "returned" /\ op = "read" /\ size >= 1
    /\ last_refill = "False" /\ eof /\ exhausted

\* C20: while the flag is None or False (and start_stats is not called), the
\* bytes taken from the stream are the bytes returned plus the bytes in the
\* buffer: compressed_bytes = uncompressed_bytes + len(buffer), where
\* compressed_bytes is what has left the stream and uncompressed_bytes is
\* what the calls have returned.
C20_Conservation ==
    header_read \in {"None", "False"} =>
        /\ compressed_bytes = uncompressed_bytes + Len(buffer)
        /\ compressed_bytes = Len(input) - Len(stream)
        /\ uncompressed_bytes = Len(delivered)

\* pass-through with bytes in all three places: returned, buffered, unread
C20_Witness ==
    /\ header_read = "False" /\ uncompressed_bytes > 0
    /\ buffer # <<>> /\ stream # <<>> /\ pc = "returned"

====
